---- MODULE Spec2Model ----
(***************************************************************************)
(* Period & ledger engine of backend-tabunganKita.                         *)
(*                                                                         *)
(* The store is the MySQL schema of prisma/migrations (tables savings and  *)
(* transactions, their unique index and foreign keys).  Every route        *)
(* handler of index.js (savings router) and routes/transactions.js is a    *)
(* process that runs from one `await prisma...` to the next: one action    *)
(* per store call, together with the synchronous code that follows it.     *)
(* Money is exact: dailyBudget is kept as a reduced fraction.              *)
(***************************************************************************)
EXTENDS Integers, Sequences, FiniteSets, TLC

\* ------------------------------------------------------------------ values

\* SQL NULL (savings.weekNumber) and Prisma's null result of findFirst.
NULL == -1

\* A field that is absent from the request body (JavaScript undefined).
Undefined == -2

\* Bounds of the model.
MaxSavingId == 2
MaxTxId == 2
MaxTodoId == 2

Procs == {1, 2}
Users == {1, 2}

\* JavaScript !x on a number or on an absent field.
Falsy(x) == x = Undefined \/ x = 0

RECURSIVE Gcd(_, _)
Gcd(a, b) == IF b = 0 THEN a ELSE Gcd(b, a % b)

\* a / d on positive amounts, exactly, as a reduced fraction.
Divide(a, d) == [num |-> a \div Gcd(a, d), den |-> d \div Gcd(a, d)]

IsLeap(y) == (y % 4 = 0 /\ y % 100 # 0) \/ y % 400 = 0

\* new Date(year, month, 0).getDate(): the last day of the 1-based month.
DaysInMonth(year, month) ==
    IF month = 2 THEN (IF IsLeap(year) THEN 29 ELSE 28)
    ELSE IF month \in {4, 6, 9, 11} THEN 30 ELSE 31

\* ---------------------------------------------------------------- requests

NoReq ==
    [op |-> "none", user |-> 0, id |-> Undefined, period |-> "monthly",
     month |-> Undefined, year |-> Undefined, weekNumber |-> Undefined,
     income |-> Undefined, target |-> Undefined, amount |-> Undefined,
     description |-> Undefined, date |-> Undefined,
     limit |-> Undefined, offset |-> Undefined, title |-> Undefined]

NoLoc ==
    [id |-> NULL, n |-> 0, dailyBudget |-> [num |-> 0, den |-> 1], rows |-> <<>>,
     completed |-> FALSE]

\* The pagination object of GET /transactions.
NoPagination == [total |-> 0, limit |-> 0, offset |-> 0, hasMore |-> FALSE]

\* A response: its status, the id of the row it reports, the count it reports,
\* the list it returns and its pagination; `call` records the store write the
\* handler made.
NoResp ==
    [op |-> "none", status |-> 0, id |-> NULL, n |-> 0, body |-> <<>>,
     call |-> "none", pagination |-> NoPagination]

\* POST /savings
UpsertReq(u, per, m, y, w, inc, tgt) ==
    [NoReq EXCEPT !.op = "upsert", !.user = u, !.period = per, !.month = m,
                  !.year = y, !.weekNumber = w, !.income = inc, !.target = tgt]

\* DELETE /savings/:id and DELETE /savings/:id/force
DeletePeriodReq(u, id) == [NoReq EXCEPT !.op = "deletePeriod", !.user = u, !.id = id]
ForceDeleteReq(u, id) == [NoReq EXCEPT !.op = "forceDelete", !.user = u, !.id = id]

\* POST /transactions (id is the body's savingId)
CreateTxReq(u, sid, amt, desc, d) ==
    [NoReq EXCEPT !.op = "createTx", !.user = u, !.id = sid, !.amount = amt,
                  !.description = desc, !.date = d]

\* GET /transactions/saving/:savingId
ListTxReq(u, sid) == [NoReq EXCEPT !.op = "listTx", !.user = u, !.id = sid]

\* PUT /transactions/:id and DELETE /transactions/:id
UpdateTxReq(u, id, amt, desc, d) ==
    [NoReq EXCEPT !.op = "updateTx", !.user = u, !.id = id, !.amount = amt,
                  !.description = desc, !.date = d]
DeleteTxReq(u, id) == [NoReq EXCEPT !.op = "deleteTx", !.user = u, !.id = id]

\* GET /savings/all
ListPeriodsReq(u) == [NoReq EXCEPT !.op = "listPeriods", !.user = u]

\* GET /savings/:year/:month
GetPeriodReq(u, y, m) ==
    [NoReq EXCEPT !.op = "getPeriod", !.user = u, !.year = y, !.month = m]

\* GET /transactions?limit=&offset=
ListTransactionsReq(u, lim, off) ==
    [NoReq EXCEPT !.op = "listTransactions", !.user = u, !.limit = lim,
                  !.offset = off]

\* POST /todos (title 0 is the empty or blank string)
CreateTodoReq(u, title) == [NoReq EXCEPT !.op = "createTodo", !.user = u, !.title = title]

\* PATCH /todos/:id/toggle and DELETE /todos/:id
ToggleReq(u, id) == [NoReq EXCEPT !.op = "toggle", !.user = u, !.id = id]
DeleteTodoReq(u, id) == [NoReq EXCEPT !.op = "deleteTodo", !.user = u, !.id = id]

VARIABLES
    savings,        \* table savings: a set of rows
    transactions,   \* table transactions: a set of rows
    nextSavingId,   \* AUTO_INCREMENT of savings.id
    nextTxId,       \* AUTO_INCREMENT of transactions.id
    todos,          \* table todos: a set of rows
    nextTodoId,     \* AUTO_INCREMENT of todos.id
    pc,             \* per request slot: where its handler stands
    req,            \* per request slot: the request being handled
    loc,            \* per request slot: the handler's local variables
    resp            \* per request slot: the last response sent

vars ==
    <<savings, transactions, nextSavingId, nextTxId, todos, nextTodoId,
      pc, req, loc, resp>>
store == <<savings, transactions>>

Init ==
    /\ savings = {}
    /\ transactions = {}
    /\ nextSavingId = 1
    /\ nextTxId = 1
    /\ todos = {}
    /\ nextTodoId = 1
    /\ pc = [p \in Procs |-> "idle"]
    /\ req = [p \in Procs |-> NoReq]
    /\ loc = [p \in Procs |-> NoLoc]
    /\ resp = [p \in Procs |-> NoResp]

\* --------------------------------------------------------------- the store

SavingById(S, id) == {s \in S : s.id = id}
TxOfSaving(T, sid) == {t \in T : t.savingId = sid}

\* A lookup of the period by id alone.
FindSavingAnyOwner(S, id, user) == {s.id : s \in {x \in S : x.id = id}}

\* prisma.saving.findFirst({where: {id, userId}}): the ids it can return.
FindSavingOwned(S, id, user) == {s.id : s \in {x \in S : x.id = id /\ x.userId = user}}

\* FindMonthly with the filter weekNumber: 0 in place of weekNumber: null.
FindMonthlyWeekZero(S, user, month, year) ==
    {s.id : s \in {x \in S : /\ x.userId = user /\ x.month = month
                             /\ x.year = year /\ x.weekNumber = 0}}

\* FindMonthly without the filter on weekNumber.
FindMonthlyAnyWeek(S, user, month, year) ==
    {s.id : s \in {x \in S : /\ x.userId = user /\ x.month = month
                             /\ x.year = year}}

\* findFirst({where: {userId, month, year, weekNumber: null}}): the ids of
\* the rows that match (findFirst returns any one of them, or null).
FindMonthly(S, user, month, year) ==
    {s.id : s \in {x \in S : /\ x.userId = user /\ x.month = month
                             /\ x.year = year /\ x.weekNumber = NULL}}

\* The lookup of upsert's where: userId_month_year_weekNumber.
FindWeekly(S, user, month, year, week) ==
    {s.id : s \in {x \in S : /\ x.userId = user /\ x.month = month
                             /\ x.year = year /\ x.weekNumber = week}}

\* The table without its unique index.
UniqueIndexMissing(S, row) == FALSE

\* A unique index under which two NULLs are equal.
UniqueIndexNullsEqual(S, row) ==
    \E s \in S : /\ s.userId = row.userId /\ s.month = row.month
                 /\ s.year = row.year /\ s.weekNumber = row.weekNumber

\* UNIQUE INDEX savings_userId_month_year_weekNumber_key: MySQL rejects a row
\* whose key equals that of a stored row; a NULL in the key equals nothing.
UniqueIndexRejects(S, row) ==
    /\ row.weekNumber # NULL
    /\ \E s \in S : /\ s.userId = row.userId /\ s.month = row.month
                    /\ s.year = row.year /\ s.weekNumber = row.weekNumber

\* ------------------------------------------------------- POST /savings

\* The validation with `>` in place of `>=` on the saving target.
UpsertValidationOffByOne(r) ==
    IF Falsy(r.income) \/ Falsy(r.target) THEN 400
    ELSE IF r.income <= 0 THEN 400
    ELSE IF r.target < 0 THEN 400
    ELSE IF r.target > r.income THEN 400
    ELSE IF Falsy(r.month) \/ Falsy(r.year) THEN 400
    ELSE IF r.month < 1 \/ r.month > 12 THEN 400
    ELSE IF r.period = "weekly" /\ Falsy(r.weekNumber) THEN 400
    ELSE 0

\* The validation of router.post('/'): 400 when it rejects, 0 when it passes.
UpsertValidation(r) ==
    IF Falsy(r.income) \/ Falsy(r.target) THEN 400
    ELSE IF r.income <= 0 THEN 400
    ELSE IF r.target < 0 THEN 400
    ELSE IF r.target >= r.income THEN 400
    ELSE IF Falsy(r.month) \/ Falsy(r.year) THEN 400
    ELSE IF r.month < 1 \/ r.month > 12 THEN 400
    ELSE IF r.period = "weekly" /\ Falsy(r.weekNumber) THEN 400
    ELSE 0

finalAvailableAmount(r) == r.income - r.target

days(r) == IF r.period = "weekly" THEN 7 ELSE DaysInMonth(r.year, r.month)

finalDailyBudget(r) == Divide(finalAvailableAmount(r), days(r))

\* The `create:` / `data:` payload of a new row.
CreateData(r, id, week) ==
    [id |-> id, userId |-> r.user,
     monthlyIncome |-> r.income, savingTarget |-> r.target,
     availableAmount |-> finalAvailableAmount(r),
     dailyBudget |-> finalDailyBudget(r),
     period |-> r.period, month |-> r.month, year |-> r.year,
     weekNumber |-> week]

\* An update payload that leaves out availableAmount.
UpdateDataPartial(s, r) ==
    [s EXCEPT !.monthlyIncome = r.income, !.savingTarget = r.target,
              !.dailyBudget = Divide(r.income - r.target,
                                     IF r.period = "weekly" THEN 7
                                     ELSE DaysInMonth(r.year, r.month)),
              !.period = r.period]

\* An update that adds the income of the request to the stored one.
UpdateDataAccumulates(s, r) ==
    [s EXCEPT !.monthlyIncome = @ + r.income, !.savingTarget = r.target,
              !.availableAmount = finalAvailableAmount(r),
              !.dailyBudget = finalDailyBudget(r),
              !.period = r.period]

\* The `update:` / `data:` payload applied to a stored row.
UpdateData(s, r) ==
    [s EXCEPT !.monthlyIncome = r.income, !.savingTarget = r.target,
              !.availableAmount = finalAvailableAmount(r),
              !.dailyBudget = finalDailyBudget(r),
              !.period = r.period]

SavingUpdate(S, id, r) == {IF s.id = id THEN UpdateData(s, r) ELSE s : s \in S}

\* ------------------------------------------------------------- processes

Done(p, r) ==
    /\ pc' = [pc EXCEPT ![p] = "idle"]
    /\ req' = [req EXCEPT ![p] = NoReq]
    /\ loc' = [loc EXCEPT ![p] = NoLoc]
    /\ resp' = [resp EXCEPT ![p] = r]

Goto(p, label, l) ==
    /\ pc' = [pc EXCEPT ![p] = label]
    /\ loc' = [loc EXCEPT ![p] = l]
    /\ UNCHANGED <<req, resp>>

\* The response to request r with status st (id: the :id the request named).
Reply(r, st) == [NoResp EXCEPT !.op = r.op, !.status = st, !.id = r.id]

InFlight(op) == Cardinality({q \in Procs : pc[q] # "idle" /\ req[q].op = op})

\* A request arrives (authenticateToken has set req.user.id).
Receive(p, r) ==
    /\ pc[p] = "idle"
    /\ r.op = "upsert" => nextSavingId + InFlight("upsert") <= MaxSavingId
    /\ r.op = "createTx" => nextTxId + InFlight("createTx") <= MaxTxId
    /\ r.op = "createTodo" => nextTodoId + InFlight("createTodo") <= MaxTodoId
    /\ pc' = [pc EXCEPT ![p] = "recv"]
    /\ req' = [req EXCEPT ![p] = r]
    /\ loc' = [loc EXCEPT ![p] = NoLoc]
    /\ resp' = [resp EXCEPT ![p] = NoResp]
    /\ UNCHANGED <<savings, transactions, nextSavingId, nextTxId, todos, nextTodoId>>

\* router.post('/'): validation, then the lookup (upsert's own for a weekly
\* period, findFirst for a monthly one).  On MySQL prisma.saving.upsert is a
\* lookup followed by an insert or an update, which other statements can
\* come between; the unique index decides the insert.
UpsertFind(p) ==
    /\ pc[p] = "recv" /\ req[p].op = "upsert"
    /\ LET r == req[p]
           found == IF r.period = "weekly"
                    THEN FindWeekly(savings, r.user, r.month, r.year, r.weekNumber)
                    ELSE FindMonthly(savings, r.user, r.month, r.year)
       IN IF UpsertValidation(r) # 0
          THEN Done(p, Reply(r, UpsertValidation(r)))
          ELSE \E id \in (IF found = {} THEN {NULL} ELSE found) :
                  Goto(p, "upsert_write", [NoLoc EXCEPT !.id = id])
    /\ UNCHANGED <<savings, transactions, nextSavingId, nextTxId, todos, nextTodoId>>

\* The write that follows the lookup: update of the row found, or create.
UpsertWrite(p) ==
    /\ pc[p] = "upsert_write"
    /\ LET r == req[p]
           week == IF r.period = "weekly" THEN r.weekNumber ELSE NULL
           row == CreateData(r, nextSavingId, week)
       IN IF loc[p].id # NULL
          THEN IF SavingById(savings, loc[p].id) # {}
               THEN /\ savings' = SavingUpdate(savings, loc[p].id, r)
                    /\ Done(p, [Reply(r, 200) EXCEPT !.id = loc[p].id, !.call = "update"])
                    /\ UNCHANGED nextSavingId
               ELSE \* record to update not found: caught, 500
                    /\ Done(p, Reply(r, 500))
                    /\ UNCHANGED <<savings, nextSavingId>>
          ELSE IF UniqueIndexRejects(savings, row)
               THEN \* unique constraint failed: caught, 500
                    /\ Done(p, Reply(r, 500))
                    /\ UNCHANGED <<savings, nextSavingId>>
               ELSE /\ savings' = savings \cup {row}
                    /\ nextSavingId' = nextSavingId + 1
                    /\ Done(p, [Reply(r, 200) EXCEPT !.id = row.id, !.call = "create"])
    /\ UNCHANGED <<transactions, nextTxId, todos, nextTodoId>>

\* ------------------------------------------ DELETE /savings/:id (and /force)

\* A cascade whose filter is inverted.
CascadeDeleteOthers(T, sid) == {t \in T : t.savingId = sid}

\* Table transactions without the foreign key on savingId.
ForeignKeyUnchecked(S, sid) == TRUE

\* A count over the whole table instead of the saving's relation.
TransactionCountAll(T, sid) == Cardinality(T)

\* FOREIGN KEY transactions_savingId_fkey ... ON DELETE CASCADE: the rows of
\* transactions left when the savings row sid is deleted.
CascadeDelete(T, sid) == {t \in T : t.savingId # sid}

\* The same foreign key on INSERT: the parent row must exist.
ForeignKeyOk(S, sid) == SavingById(S, sid) # {}

\* A lookup that includes no transactions.
TransactionCountNone(T, sid) == 0

\* saving.transactions.length of findFirst({..., include: {transactions: true}}).
TransactionCount(T, sid) == Cardinality(TxOfSaving(T, sid))

\* router.delete('/:id'): the ownership lookup and the two early returns.
DeletePeriodFind(p) ==
    /\ pc[p] = "recv" /\ req[p].op = "deletePeriod"
    /\ LET r == req[p]
           n == TransactionCount(transactions, r.id)
       IN IF FindSavingOwned(savings, r.id, r.user) = {}
          THEN Done(p, Reply(r, 404))
          ELSE IF n > 0
               THEN Done(p, [Reply(r, 400) EXCEPT !.id = r.id, !.n = n])
               ELSE Goto(p, "delete_saving", [NoLoc EXCEPT !.id = r.id])
    /\ UNCHANGED <<savings, transactions, nextSavingId, nextTxId, todos, nextTodoId>>

\* prisma.saving.delete({where: {id}}).
DeletePeriodDelete(p) ==
    /\ pc[p] = "delete_saving"
    /\ LET r == req[p]
           id == loc[p].id
       IN IF SavingById(savings, id) # {}
          THEN /\ savings' = savings \ SavingById(savings, id)
               /\ transactions' = CascadeDelete(transactions, id)
               /\ Done(p, [Reply(r, 200) EXCEPT !.id = id, !.call = "delete"])
          ELSE /\ Done(p, Reply(r, 500))
               /\ UNCHANGED <<savings, transactions>>
    /\ UNCHANGED <<nextSavingId, nextTxId, todos, nextTodoId>>

\* router.delete('/:id/force'): the ownership lookup.
ForceFind(p) ==
    /\ pc[p] = "recv" /\ req[p].op = "forceDelete"
    /\ LET r == req[p]
       IN IF FindSavingOwned(savings, r.id, r.user) = {}
          THEN Done(p, Reply(r, 404))
          ELSE Goto(p, "force_wipe",
                    [NoLoc EXCEPT !.id = r.id,
                                  !.n = TransactionCount(transactions, r.id)])
    /\ UNCHANGED <<savings, transactions, nextSavingId, nextTxId, todos, nextTodoId>>

\* The deleteMany issued on the shared client, outside any transaction.
WipeOutsideTransaction(T, sid) == {t \in T : t.savingId # sid}

\* What the other connections see of table transactions after the deleteMany
\* issued inside prisma.$transaction and before its commit: nothing of it.
WipeVisible(T, sid) == T

\* transaction.deleteMany({where: {savingId}}) inside the open transaction.
ForceWipe(p) ==
    /\ pc[p] = "force_wipe"
    /\ transactions' = WipeVisible(transactions, loc[p].id)
    /\ Goto(p, "force_delete", loc[p])
    /\ UNCHANGED <<savings, nextSavingId, nextTxId, todos, nextTodoId>>

\* saving.delete({where: {id}}) inside the transaction, and its commit; when
\* the row is gone the delete throws and the transaction rolls back.
ForceCommit(p) ==
    /\ pc[p] = "force_delete"
    /\ LET r == req[p]
           id == loc[p].id
       IN IF SavingById(savings, id) # {}
          THEN /\ savings' = savings \ SavingById(savings, id)
               /\ transactions' = CascadeDelete(transactions, id)
               /\ Done(p, [Reply(r, 200) EXCEPT !.id = id, !.n = loc[p].n,
                                                !.call = "delete"])
          ELSE /\ Done(p, Reply(r, 500))
               /\ UNCHANGED <<savings, transactions>>
    /\ UNCHANGED <<nextSavingId, nextTxId, todos, nextTodoId>>

\* The transaction fails between the deleteMany and the delete (timeout, lost
\* connection): it rolls back, the callback's error is caught, 500.
ForceAbort(p) ==
    /\ pc[p] = "force_delete"
    /\ Done(p, Reply(req[p], 500))
    /\ UNCHANGED <<savings, transactions, nextSavingId, nextTxId, todos, nextTodoId>>

\* ------------------------------------------------------ POST /transactions

\* The validation of router.post('/'): 400 when it rejects, 0 when it passes.
\* A validation that looks at the amount only.
CreateTxValidationAmountOnly(r) ==
    IF Falsy(r.amount) THEN 400
    ELSE IF r.amount <= 0 THEN 400
    ELSE 0

CreateTxValidation(r) ==
    IF Falsy(r.amount) \/ Falsy(r.id) THEN 400
    ELSE IF r.amount <= 0 THEN 400
    ELSE 0

\* The days the clock can show when `date` is absent (new Date()).
Dates == {1, 2}

\* Validation, then the ownership lookup of the saving.
CreateTxFind(p) ==
    /\ pc[p] = "recv" /\ req[p].op = "createTx"
    /\ LET r == req[p]
       IN IF CreateTxValidation(r) # 0
          THEN Done(p, Reply(r, CreateTxValidation(r)))
          ELSE IF FindSavingOwned(savings, r.id, r.user) = {}
               THEN Done(p, Reply(r, 404))
               ELSE Goto(p, "create_tx", [NoLoc EXCEPT !.id = r.id])
    /\ UNCHANGED <<savings, transactions, nextSavingId, nextTxId, todos, nextTodoId>>

\* prisma.transaction.create({data}).
CreateTxCreate(p) ==
    /\ pc[p] = "create_tx"
    /\ LET r == req[p]
       IN IF ForeignKeyOk(savings, r.id)
          THEN \E d \in (IF Falsy(r.date) THEN Dates ELSE {r.date}) :
                 /\ transactions' = transactions \cup
                       {[id |-> nextTxId, userId |-> r.user, savingId |-> r.id,
                         amount |-> r.amount,
                         description |-> IF Falsy(r.description) THEN 0
                                         ELSE r.description,
                         date |-> d]}
                 /\ nextTxId' = nextTxId + 1
                 /\ Done(p, [Reply(r, 201) EXCEPT !.id = nextTxId, !.call = "create"])
          ELSE \* foreign key constraint failed: caught, 500
               /\ Done(p, Reply(r, 500))
               /\ UNCHANGED <<transactions, nextTxId>>
    /\ UNCHANGED <<savings, nextSavingId, todos, nextTodoId>>

\* ------------------------------------- PUT and DELETE /transactions/:id

\* findFirst({where: {id, userId}}) on transactions.
FindTxOwned(T, id, user) == {t.id : t \in {x \in T : x.id = id /\ x.userId = user}}

TxFind(p) ==
    /\ pc[p] = "recv" /\ req[p].op \in {"updateTx", "deleteTx"}
    /\ LET r == req[p]
       IN IF FindTxOwned(transactions, r.id, r.user) = {}
          THEN Done(p, Reply(r, 404))
          ELSE Goto(p, IF r.op = "updateTx" THEN "update_tx" ELSE "delete_tx",
                    [NoLoc EXCEPT !.id = r.id])
    /\ UNCHANGED <<savings, transactions, nextSavingId, nextTxId, todos, nextTodoId>>

\* An update that writes every column, clearing the ones the body lacks.
PatchDataClearsAbsent(t, r) ==
    [t EXCEPT !.amount = IF Falsy(r.amount) THEN @ ELSE r.amount,
              !.description = IF r.description = Undefined THEN 0 ELSE r.description,
              !.date = IF Falsy(r.date) THEN @ ELSE r.date]

\* The `data:` of transaction.update: only the fields the body carries.
PatchData(t, r) ==
    [t EXCEPT !.amount = IF Falsy(r.amount) THEN @ ELSE r.amount,
              !.description = IF r.description = Undefined THEN @ ELSE r.description,
              !.date = IF Falsy(r.date) THEN @ ELSE r.date]

UpdateTxUpdate(p) ==
    /\ pc[p] = "update_tx"
    /\ LET r == req[p]
           hit == {t \in transactions : t.id = loc[p].id}
       IN IF hit # {}
          THEN /\ transactions' =
                    {IF t.id = loc[p].id THEN PatchData(t, r) ELSE t : t \in transactions}
               /\ Done(p, [Reply(r, 200) EXCEPT !.id = loc[p].id, !.call = "update"])
          ELSE /\ Done(p, Reply(r, 500))
               /\ UNCHANGED transactions
    /\ UNCHANGED <<savings, nextSavingId, nextTxId, todos, nextTodoId>>

DeleteTxDelete(p) ==
    /\ pc[p] = "delete_tx"
    /\ LET r == req[p]
           hit == {t \in transactions : t.id = loc[p].id}
       IN IF hit # {}
          THEN /\ transactions' = transactions \ hit
               /\ Done(p, [Reply(r, 200) EXCEPT !.id = loc[p].id, !.call = "delete"])
          ELSE /\ Done(p, Reply(r, 500))
               /\ UNCHANGED transactions
    /\ UNCHANGED <<savings, nextSavingId, nextTxId, todos, nextTodoId>>

\* --------------------------------- GET /transactions/saving/:savingId

\* findMany({..., orderBy: {date: 'desc'}}): every order of the rows that is
\* newest first (rows of equal date come in any order).
OrderedByDateDesc(T) ==
    {s \in [1..Cardinality(T) -> T] :
        /\ \A i, j \in 1..Cardinality(T) : i # j => s[i] # s[j]
        /\ \A i \in 1..(Cardinality(T) - 1) : s[i].date >= s[i + 1].date}

RECURSIVE SumAmounts(_, _)
SumAmounts(s, k) == IF k = 0 THEN 0 ELSE s[k].amount + SumAmounts(s, k - 1)

\* Number.prototype.toFixed(2) of num/den (den > 0): a '-' for a negative
\* number, then its magnitude in hundredths, rounded half up.
toFixed2(num, den) ==
    LET mag == IF num < 0 THEN -num ELSE num
    IN [minus |-> num < 0, cents |-> (200 * mag + den) \div (2 * den)]

\* A difference string whose '+' stands before positive numbers only.
DifferenceStringStrict(num, den) ==
    [plus |-> num > 0, minus |-> toFixed2(num, den).minus,
     cents |-> toFixed2(num, den).cents]

\* difference >= 0 ? `+${difference.toFixed(2)}` : difference.toFixed(2)
DifferenceString(num, den) ==
    [plus |-> num >= 0, minus |-> toFixed2(num, den).minus,
     cents |-> toFixed2(num, den).cents]

\* transactions.map(...): runningTotal accumulates in the order of the array.
WithCalculations(s, dailyBudget) ==
    [i \in 1..Len(s) |->
        LET runningTotal == SumAmounts(s, i)
            dayOfMonth == s[i].date
            \* expectedSpent - runningTotal, over the denominator of dailyBudget
            diffNum == dailyBudget.num * dayOfMonth - runningTotal * dailyBudget.den
        IN [id |-> s[i].id, amount |-> s[i].amount, date |-> s[i].date,
            runningTotal |-> runningTotal,
            expectedSpent |-> [num |-> dailyBudget.num * dayOfMonth,
                               den |-> dailyBudget.den],
            difference |-> DifferenceString(diffNum, dailyBudget.den)]]

\* Array.prototype.reverse.
Reverse(s) == [i \in 1..Len(s) |-> s[Len(s) + 1 - i]]

ListTxFind(p) ==
    /\ pc[p] = "recv" /\ req[p].op = "listTx"
    /\ LET r == req[p]
           own == {s \in savings : s.id = r.id /\ s.userId = r.user}
       IN IF own = {}
          THEN Done(p, Reply(r, 404))
          ELSE \E s \in own :
                 Goto(p, "list_tx", [NoLoc EXCEPT !.id = r.id,
                                                  !.dailyBudget = s.dailyBudget])
    /\ UNCHANGED <<savings, transactions, nextSavingId, nextTxId, todos, nextTodoId>>

ListTxQuery(p) ==
    /\ pc[p] = "list_tx"
    /\ LET r == req[p]
           rows == {t \in transactions : t.savingId = r.id /\ t.userId = r.user}
       IN \E s \in OrderedByDateDesc(rows) :
             Done(p, [Reply(r, 200) EXCEPT
                        !.id = r.id,
                        !.body = Reverse(WithCalculations(s, loc[p].dailyBudget))])
    /\ UNCHANGED <<savings, transactions, nextSavingId, nextTxId, todos, nextTodoId>>

\* ------------------------------------------------------ GET /savings/all

\* An order of the rows by year alone.
OrderedByYearDesc(S) ==
    {s \in [1..Cardinality(S) -> S] :
        /\ \A i, j \in 1..Cardinality(S) : i # j => s[i] # s[j]
        /\ \A i \in 1..(Cardinality(S) - 1) : s[i].year >= s[i + 1].year}

\* findMany({where: {userId}, orderBy: [{year: 'desc'}, {month: 'desc'}]}):
\* every order of the rows by year, then month, both descending (rows of one
\* month and year come in any order).
OrderedByYearMonthDesc(S) ==
    {s \in [1..Cardinality(S) -> S] :
        /\ \A i, j \in 1..Cardinality(S) : i # j => s[i] # s[j]
        /\ \A i \in 1..(Cardinality(S) - 1) :
              \/ s[i].year > s[i + 1].year
              \/ s[i].year = s[i + 1].year /\ s[i].month >= s[i + 1].month}

\* transactions.reduce((sum, transaction) => sum + transaction.amount, 0)
RECURSIVE TotalSpent(_)
TotalSpent(T) ==
    IF T = {} THEN 0
    ELSE LET t == CHOOSE x \in T : TRUE IN t.amount + TotalSpent(T \ {t})

\* {...saving, summary: {totalSpent, remainingBudget, transactionCount}} with
\* the included transactions of the row.
WithSummary(s, T) ==
    [saving |-> s, transactions |-> T,
     totalSpent |-> TotalSpent(T),
     remainingBudget |-> s.availableAmount - TotalSpent(T),
     transactionCount |-> Cardinality(T)]

ListPeriods(p) ==
    /\ pc[p] = "recv" /\ req[p].op = "listPeriods"
    /\ LET r == req[p]
           rows == {s \in savings : s.userId = r.user}
       IN \E o \in OrderedByYearMonthDesc(rows) :
             Done(p, [Reply(r, 200) EXCEPT
                        !.body = [i \in 1..Len(o) |->
                                    WithSummary(o[i], TxOfSaving(transactions, o[i].id))]])
    /\ UNCHANGED <<savings, transactions, nextSavingId, nextTxId, todos, nextTodoId>>

\* ---------------------------------------------- GET /savings/:year/:month

\* The lookup without its filter on weekNumber.
FindPeriodAnyWeek(S, user, month, year) ==
    {x \in S : x.userId = user /\ x.month = month /\ x.year = year}

\* findFirst({where: {userId, month, year, weekNumber: null}}): the rows it
\* can return.
FindPeriod(S, user, month, year) ==
    {x \in S : /\ x.userId = user /\ x.month = month
               /\ x.year = year /\ x.weekNumber = NULL}

\* The response of getPeriod for row s, its transactions o (newest first)
\* and the day of month the clock shows.
PeriodSummary(s, o, year, month, currentDay) ==
    LET totalSpent == SumAmounts(o, Len(o))
    IN [saving |-> s, transactions |-> o,
        totalSpent |-> totalSpent,
        remainingBudget |-> s.availableAmount - totalSpent,
        expectedSpent |-> [num |-> s.dailyBudget.num * currentDay,
                           den |-> s.dailyBudget.den],
        difference |-> [num |-> s.dailyBudget.num * currentDay
                                  - totalSpent * s.dailyBudget.den,
                        den |-> s.dailyBudget.den],
        daysInMonth |-> DaysInMonth(year, month),
        currentDay |-> currentDay]

GetPeriod(p) ==
    /\ pc[p] = "recv" /\ req[p].op = "getPeriod"
    /\ LET r == req[p]
           found == FindPeriod(savings, r.user, r.month, r.year)
       IN IF found = {}
          THEN Done(p, Reply(r, 404))
          ELSE \E s \in found, currentDay \in Dates :
                 \E o \in OrderedByDateDesc(TxOfSaving(transactions, s.id)) :
                    Done(p, [Reply(r, 200) EXCEPT
                               !.id = s.id,
                               !.body = <<PeriodSummary(s, o, r.year, r.month,
                                                        currentDay)>>])
    /\ UNCHANGED <<savings, transactions, nextSavingId, nextTxId, todos, nextTodoId>>

\* ------------------------------------------------------ GET /transactions

\* const { limit = 50, offset = 0 } = req.query
DefaultLimit == 50
DefaultOffset == 0

Limit(r) == IF r.limit = Undefined THEN DefaultLimit ELSE r.limit
Offset(r) == IF r.offset = Undefined THEN DefaultOffset ELSE r.offset

\* skip and take on an ordered result.
SkipTake(o, skip, take) ==
    [i \in 1..(IF Len(o) - skip < 0 THEN 0
               ELSE IF Len(o) - skip < take THEN Len(o) - skip ELSE take)
        |-> o[skip + i]]

\* hasMore with <= in place of <.
HasMoreInclusive(offset, limit, total) == offset + limit <= total

\* hasMore: parseInt(offset) + parseInt(limit) < total
HasMore(offset, limit, total) == offset + limit < total

\* findMany({where: {userId}, orderBy: {date: 'desc'}, take, skip}).
ListTransactionsFind(p) ==
    /\ pc[p] = "recv" /\ req[p].op = "listTransactions"
    /\ LET r == req[p]
           rows == {t \in transactions : t.userId = r.user}
       IN \E o \in OrderedByDateDesc(rows) :
             Goto(p, "count_tx",
                  [NoLoc EXCEPT !.rows = SkipTake(o, Offset(r), Limit(r))])
    /\ UNCHANGED <<savings, transactions, nextSavingId, nextTxId, todos, nextTodoId>>

\* count({where: {userId}}), then the response.
ListTransactionsCount(p) ==
    /\ pc[p] = "count_tx"
    /\ LET r == req[p]
           total == Cardinality({t \in transactions : t.userId = r.user})
       IN Done(p, [Reply(r, 200) EXCEPT
                     !.body = loc[p].rows,
                     !.pagination = [total |-> total, limit |-> Limit(r),
                                     offset |-> Offset(r),
                                     hasMore |-> HasMore(Offset(r), Limit(r), total)]])
    /\ UNCHANGED <<savings, transactions, nextSavingId, nextTxId, todos, nextTodoId>>

\* ------------------------------------------------------------------ /todos

\* router.post('/'): the title check, then prisma.todo.create; completed
\* takes its column default, false.
CreateTodo(p) ==
    /\ pc[p] = "recv" /\ req[p].op = "createTodo"
    /\ LET r == req[p]
       IN IF Falsy(r.title)
          THEN /\ Done(p, Reply(r, 400))
               /\ UNCHANGED <<todos, nextTodoId>>
          ELSE /\ todos' = todos \cup {[id |-> nextTodoId, userId |-> r.user,
                                        title |-> r.title, completed |-> FALSE]}
               /\ nextTodoId' = nextTodoId + 1
               /\ Done(p, [Reply(r, 201) EXCEPT !.id = nextTodoId, !.call = "create"])
    /\ UNCHANGED <<savings, transactions, nextSavingId, nextTxId>>

\* findFirst({where: {id, userId}}) on todos: the rows it can return.
FindTodoOwned(D, id, user) == {t \in D : t.id = id /\ t.userId = user}

\* router.patch('/:id/toggle') and router.delete('/:id'): the ownership
\* lookup; the toggle keeps the row it read in existingTodo.
TodoFind(p) ==
    /\ pc[p] = "recv" /\ req[p].op \in {"toggle", "deleteTodo"}
    /\ LET r == req[p]
           found == FindTodoOwned(todos, r.id, r.user)
       IN IF found = {}
          THEN Done(p, Reply(r, 404))
          ELSE \E existingTodo \in found :
                 Goto(p, IF r.op = "toggle" THEN "toggle_update" ELSE "delete_todo",
                      [NoLoc EXCEPT !.id = r.id,
                                    !.completed = existingTodo.completed])
    /\ UNCHANGED <<savings, transactions, nextSavingId, nextTxId, todos, nextTodoId>>

\* The toggle's data: completed: !existingTodo.completed.
ToggleData(t, existingCompleted) == [t EXCEPT !.completed = ~existingCompleted]

\* prisma.todo.update({where: {id}, data: {completed: !existingTodo.completed}}).
ToggleUpdate(p) ==
    /\ pc[p] = "toggle_update"
    /\ LET r == req[p]
           hit == {t \in todos : t.id = loc[p].id}
       IN IF hit # {}
          THEN /\ todos' = {IF t.id = loc[p].id
                            THEN ToggleData(t, loc[p].completed) ELSE t : t \in todos}
               /\ Done(p, [Reply(r, 200) EXCEPT !.id = loc[p].id, !.call = "update"])
          ELSE \* record to update not found: caught, 500
               /\ Done(p, Reply(r, 500))
               /\ UNCHANGED todos
    /\ UNCHANGED <<savings, transactions, nextSavingId, nextTxId, nextTodoId>>

\* prisma.todo.delete({where: {id}}).
DeleteTodoDelete(p) ==
    /\ pc[p] = "delete_todo"
    /\ LET r == req[p]
           hit == {t \in todos : t.id = loc[p].id}
       IN IF hit # {}
          THEN /\ todos' = todos \ hit
               /\ Done(p, [Reply(r, 200) EXCEPT !.id = loc[p].id, !.call = "delete"])
          ELSE /\ Done(p, Reply(r, 500))
               /\ UNCHANGED todos
    /\ UNCHANGED <<savings, transactions, nextSavingId, nextTxId, nextTodoId>>

\* ---------------------------------------------------------- specifications

\* The steps of the handlers that write, and of the list of a period.
Step(p) ==
    \/ UpsertFind(p)
    \/ UpsertWrite(p)
    \/ DeletePeriodFind(p)
    \/ DeletePeriodDelete(p)
    \/ ForceFind(p)
    \/ ForceWipe(p)
    \/ ForceCommit(p)
    \/ ForceAbort(p)
    \/ CreateTxFind(p)
    \/ CreateTxCreate(p)
    \/ TxFind(p)
    \/ UpdateTxUpdate(p)
    \/ DeleteTxDelete(p)
    \/ ListTxFind(p)
    \/ ListTxQuery(p)

\* Requests of concurrent callers: two users, one month, its monthly period
\* and its first week.
ConcReqs ==
    {UpsertReq(1, per, 2, 2024, 1, it[1], it[2]) :
        per \in {"monthly", "weekly"}, it \in {<<60, 4>>, <<90, 59>>}}
    \cup {CreateTxReq(u, 1, 10, Undefined, 1) : u \in Users}
    \cup {UpdateTxReq(1, 1, 20, Undefined, Undefined), DeleteTxReq(1, 1),
          DeletePeriodReq(1, 1), ForceDeleteReq(1, 1), ListTxReq(1, 1)}

Next ==
    \E p \in Procs :
        \/ \E r \in ConcReqs : Receive(p, r)
        \/ Step(p)

\* Any interleaving of the handlers of two concurrent requests.
Spec == Init /\ [][Next]_vars

\* Requests of a single caller at a time: valid and invalid bodies.
SeqUpsertReqs ==
    {UpsertReq(u, per, 2, 2024, 1, it[1], it[2]) :
        u \in Users, per \in {"monthly", "weekly"}, it \in {<<60, 4>>, <<60, 59>>}}
    \cup {UpsertReq(1, per, 2, 2024, 1, it[1], it[2]) :
            per \in {"monthly", "weekly"},
            it \in {<<Undefined, 4>>, <<60, Undefined>>, <<0, 4>>, <<60, 0>>,
                    <<-60, 4>>, <<-60, -90>>, <<60, -4>>, <<60, 60>>, <<60, 90>>}}
    \cup {UpsertReq(1, per, m, 2024, 1, 60, 4) :
            per \in {"monthly", "weekly"}, m \in {Undefined, 0, 13}}
    \cup {UpsertReq(1, "monthly", 2, Undefined, 1, 60, 4),
          UpsertReq(1, "weekly", 2, 2024, Undefined, 60, 4),
          UpsertReq(1, "monthly", 2, 2024, Undefined, 60, 59)}

SeqPeriodReqs ==
    SeqUpsertReqs
    \cup {DeletePeriodReq(u, id) : u \in Users, id \in 1..MaxSavingId}
    \cup {ForceDeleteReq(1, id) : id \in 1..MaxSavingId}

SeqPeriodNext ==
    \/ \E r \in SeqPeriodReqs : Receive(1, r)
    \/ UpsertFind(1)
    \/ UpsertWrite(1)
    \/ DeletePeriodFind(1)
    \/ DeletePeriodDelete(1)
    \/ ForceFind(1)
    \/ ForceWipe(1)
    \/ ForceCommit(1)
    \/ ForceAbort(1)

\* One request at a time on the savings router: every handler runs to its
\* response before the next request arrives.
SpecSeqPeriods == Init /\ [][SeqPeriodNext]_vars

\* Requests of a single caller at a time on the ledger: each user's monthly
\* period, and transactions of both users on both periods.
SeqLedgerReqs ==
    {UpsertReq(u, "monthly", 2, 2024, Undefined, 60, 4) : u \in Users}
    \cup {CreateTxReq(u, sid, 10, Undefined, d) :
            u \in Users, sid \in 1..MaxSavingId, d \in {1, 2}}
    \cup {CreateTxReq(1, 1, amt, 1, Undefined) : amt \in {Undefined, 0, -5}}
    \cup {UpdateTxReq(u, id, 30, Undefined, Undefined) : u \in Users, id \in 1..MaxTxId}
    \cup {DeleteTxReq(u, id) : u \in Users, id \in 1..MaxTxId}
    \cup {DeletePeriodReq(u, id) : u \in Users, id \in 1..MaxSavingId}
    \cup {ForceDeleteReq(u, id) : u \in Users, id \in 1..MaxSavingId}
    \cup {ListTxReq(u, id) : u \in Users, id \in 1..MaxSavingId}

SeqLedgerNext ==
    \/ \E r \in SeqLedgerReqs : Receive(1, r)
    \/ Step(1)

\* One request at a time on both routers.
SpecSeqLedger == Init /\ [][SeqLedgerNext]_vars

\* Requests of one caller at a time on the transactions router: full and
\* partial patches, valid and invalid bodies; user 2 only owns a period.
TxPatches ==
    {<<Undefined, Undefined, Undefined>>, <<20, Undefined, Undefined>>,
     <<Undefined, 1, Undefined>>, <<Undefined, Undefined, 2>>,
     <<0, 0, Undefined>>, <<-5, Undefined, Undefined>>, <<20, 1, 2>>}

SeqTxReqs ==
    {UpsertReq(u, "monthly", 2, 2024, Undefined, 60, 4) : u \in Users}
    \cup {CreateTxReq(1, sid, 10, Undefined, 1) : sid \in {Undefined, 0} \cup 1..MaxSavingId}
    \cup {CreateTxReq(1, 1, amt, 1, Undefined) : amt \in {Undefined, 0, -5}}
    \cup {UpdateTxReq(u, id, pt[1], pt[2], pt[3]) :
            u \in Users, id \in 1..MaxTxId, pt \in TxPatches}
    \cup {DeleteTxReq(1, id) : id \in 1..MaxTxId}

SeqTxNext ==
    \/ \E r \in SeqTxReqs : Receive(1, r)
    \/ UpsertFind(1)
    \/ UpsertWrite(1)
    \/ CreateTxFind(1)
    \/ CreateTxCreate(1)
    \/ TxFind(1)
    \/ UpdateTxUpdate(1)
    \/ DeleteTxDelete(1)

\* One request at a time on the transactions router.
SpecSeqTx == Init /\ [][SeqTxNext]_vars

\* Upserts of the monthly period and of weeks 1 and 2 of one month, and
\* transactions on the periods.
KeyReqs ==
    {UpsertReq(1, "monthly", 2, 2024, Undefined, it[1], it[2]) :
        it \in {<<60, 4>>, <<90, 59>>}}
    \cup {UpsertReq(1, "weekly", 2, 2024, w, it[1], it[2]) :
            w \in {1, 2}, it \in {<<60, 4>>, <<90, 59>>}}
    \cup {UpsertReq(2, "monthly", 2, 2024, Undefined, 60, 4)}
    \cup {CreateTxReq(1, sid, 10, Undefined, 1) : sid \in 1..MaxSavingId}

KeyNext ==
    \E p \in Procs :
        \/ \E r \in KeyReqs : Receive(p, r)
        \/ UpsertFind(p)
        \/ UpsertWrite(p)
        \/ CreateTxFind(p)
        \/ CreateTxCreate(p)

\* Concurrent upserts on the periods of one month that hold transactions.
SpecKeys == Init /\ [][KeyNext]_vars

\* Periods with a daily budget of 10 (70 over the 7 days of a week) and of
\* 56/29, and transactions of 5 and 10 on days 1 and 2.
DiffReqs ==
    {UpsertReq(1, "weekly", 2, 2024, 1, 80, 10),
     UpsertReq(1, "monthly", 2, 2024, Undefined, 60, 4)}
    \cup {CreateTxReq(1, sid, amt, Undefined, d) :
            sid \in 1..MaxSavingId, amt \in {5, 10}, d \in Dates}
    \cup {ListTxReq(1, sid) : sid \in 1..MaxSavingId}

DiffNext ==
    \/ \E r \in DiffReqs : Receive(1, r)
    \/ UpsertFind(1)
    \/ UpsertWrite(1)
    \/ CreateTxFind(1)
    \/ CreateTxCreate(1)
    \/ ListTxFind(1)
    \/ ListTxQuery(1)

\* One request at a time: periods, their transactions, and the period's list.
SpecSeqDiff == Init /\ [][DiffNext]_vars

\* Periods of two years and two months, monthly and weekly, transactions on
\* them, and the list of the caller's periods.
PeriodListReqs ==
    {UpsertReq(1, per, ym[2], ym[1], 1, 60, 4) :
        per \in {"monthly", "weekly"},
        ym \in {<<2023, 2>>, <<2024, 1>>, <<2024, 2>>}}
    \cup {UpsertReq(2, "monthly", 2, 2024, Undefined, 60, 4)}
    \cup {CreateTxReq(u, sid, amt, Undefined, 1) :
            u \in Users, sid \in 1..MaxSavingId, amt \in {10, 20}}
    \cup {ListPeriodsReq(u) : u \in Users}

PeriodListNext ==
    \/ \E r \in PeriodListReqs : Receive(1, r)
    \/ UpsertFind(1)
    \/ UpsertWrite(1)
    \/ CreateTxFind(1)
    \/ CreateTxCreate(1)
    \/ ListPeriods(1)

\* One request at a time: periods, their transactions, and GET /savings/all.
SpecSeqPeriodList == Init /\ [][PeriodListNext]_vars

\* The monthly period and the first week of February 2024, transactions on
\* them, and the view of that month.
GetPeriodReqs ==
    {UpsertReq(1, per, 2, 2024, 1, 60, 4) : per \in {"monthly", "weekly"}}
    \cup {UpsertReq(2, "monthly", 2, 2024, Undefined, 60, 4)}
    \cup {CreateTxReq(1, sid, amt, Undefined, d) :
            sid \in 1..MaxSavingId, amt \in {10, 20}, d \in Dates}
    \cup {GetPeriodReq(u, 2024, 2) : u \in Users}

GetPeriodNext ==
    \/ \E r \in GetPeriodReqs : Receive(1, r)
    \/ UpsertFind(1)
    \/ UpsertWrite(1)
    \/ CreateTxFind(1)
    \/ CreateTxCreate(1)
    \/ GetPeriod(1)

\* One request at a time: periods, their transactions, and
\* GET /savings/:year/:month.
SpecSeqGetPeriod == Init /\ [][GetPeriodNext]_vars

\* Transactions of two users on days 1 and 2, and pages of every limit and
\* offset up to one past the number of transactions.
PageReqs ==
    {UpsertReq(u, "monthly", 2, 2024, Undefined, 60, 4) : u \in Users}
    \cup {CreateTxReq(u, sid, 10, Undefined, d) :
            u \in Users, sid \in 1..MaxSavingId, d \in Dates}
    \cup {ListTransactionsReq(1, lim, off) :
            lim \in {Undefined} \cup 0..MaxTxId,
            off \in {Undefined} \cup 0..(MaxTxId + 1)}
    \cup {ListTransactionsReq(2, 1, 0)}

PageNext ==
    \/ \E r \in PageReqs : Receive(1, r)
    \/ UpsertFind(1)
    \/ UpsertWrite(1)
    \/ CreateTxFind(1)
    \/ CreateTxCreate(1)
    \/ ListTransactionsFind(1)
    \/ ListTransactionsCount(1)

\* One request at a time: transactions and GET /transactions.
SpecSeqPages == Init /\ [][PageNext]_vars

\* Every operation of both routers, called by each of two users on each
\* period and transaction id.
OwnerReqs ==
    {UpsertReq(u, "monthly", 2, 2024, Undefined, 60, 4) : u \in Users}
    \cup {CreateTxReq(u, sid, 10, Undefined, 1) : u \in Users, sid \in 1..MaxSavingId}
    \cup {UpdateTxReq(u, id, 20, Undefined, Undefined) : u \in Users, id \in 1..MaxTxId}
    \cup {DeleteTxReq(u, id) : u \in Users, id \in 1..MaxTxId}
    \cup {DeletePeriodReq(u, id) : u \in Users, id \in 1..MaxSavingId}
    \cup {ForceDeleteReq(u, id) : u \in Users, id \in 1..MaxSavingId}
    \cup {ListTxReq(u, id) : u \in Users, id \in 1..MaxSavingId}
    \cup {ListPeriodsReq(u) : u \in Users}
    \cup {GetPeriodReq(u, 2024, 2) : u \in Users}
    \cup {ListTransactionsReq(u, Undefined, Undefined) : u \in Users}

OwnerNext ==
    \/ \E r \in OwnerReqs : Receive(1, r)
    \/ Step(1)
    \/ ListPeriods(1)
    \/ GetPeriod(1)
    \/ ListTransactionsFind(1)
    \/ ListTransactionsCount(1)

\* One request at a time, every operation of both routers, two users.
SpecSeqOwner == Init /\ [][OwnerNext]_vars

\* A period of each user, transactions of user 1, and the deletes of
\* transactions and of periods by both users.
DeleteReqs ==
    {UpsertReq(u, "monthly", 2, 2024, Undefined, 60, 4) : u \in Users}
    \cup {CreateTxReq(1, sid, 10, Undefined, d) : sid \in 1..MaxSavingId, d \in Dates}
    \cup {DeleteTxReq(u, id) : u \in Users, id \in 1..MaxTxId}
    \cup {DeletePeriodReq(u, id) : u \in Users, id \in 1..MaxSavingId}

DeleteNext ==
    \/ \E r \in DeleteReqs : Receive(1, r)
    \/ UpsertFind(1)
    \/ UpsertWrite(1)
    \/ CreateTxFind(1)
    \/ CreateTxCreate(1)
    \/ TxFind(1)
    \/ DeleteTxDelete(1)
    \/ DeletePeriodFind(1)
    \/ DeletePeriodDelete(1)

\* One request at a time: transactions, their deletes, and the safe delete
\* of a period.
SpecSeqDeletes == Init /\ [][DeleteNext]_vars

\* Todos of two users, toggled and deleted by concurrent requests.
TodoReqs ==
    {CreateTodoReq(u, title) : u \in Users, title \in {Undefined, 0, 1}}
    \cup {ToggleReq(u, id) : u \in Users, id \in 1..MaxTodoId}
    \cup {DeleteTodoReq(1, id) : id \in 1..MaxTodoId}

TodoNext ==
    \E p \in Procs :
        \/ \E r \in TodoReqs : Receive(p, r)
        \/ CreateTodo(p)
        \/ TodoFind(p)
        \/ ToggleUpdate(p)
        \/ DeleteTodoDelete(p)

\* Any interleaving of the handlers of two concurrent requests to /todos.
SpecTodos == Init /\ [][TodoNext]_vars

\* ------------------------------------------------------------------ claims

SameSlot(a, b) ==
    /\ a.userId = b.userId /\ a.month = b.month /\ a.year = b.year
    /\ a.weekNumber = b.weekNumber

Ids(S) == {s.id : s \in S}

\* The income/target/available/allowance of row s are those of request r.
CarriesValuesOf(s, r) ==
    /\ s.monthlyIncome = r.income
    /\ s.savingTarget = r.target
    /\ s.availableAmount = r.income - r.target
    /\ s.dailyBudget.num * (IF s.weekNumber = NULL
                            THEN DaysInMonth(s.year, s.month) ELSE 7)
         = (r.income - r.target) * s.dailyBudget.den

C1_Step ==
    /\ \A a, b \in savings' : (a.weekNumber = NULL /\ SameSlot(a, b)) => a = b
    /\ \A p \in Procs :
        (/\ pc[p] = "upsert_write" /\ req[p].period # "weekly"
         /\ pc'[p] = "idle" /\ resp'[p].status = 200)
        => LET r == req[p]
               old == {s \in savings : /\ s.userId = r.user /\ s.month = r.month
                                       /\ s.year = r.year /\ s.weekNumber = NULL}
           IN IF old # {}
              THEN /\ resp'[p].id \in Ids(old)
                   /\ Ids(savings') = Ids(savings)
              ELSE /\ resp'[p].id \notin Ids(savings)
                   /\ Ids(savings') = Ids(savings) \cup {resp'[p].id}

\* C1: with one request at a time, no two rows with weekNumber = NULL share
\* (userId, month, year); an accepted monthly upsert inserts one row when the
\* slot has none and otherwise updates the slot's row, keeping its id.
C1_SequentialMonthlyUpsert == [][C1_Step]_vars

\* A monthly upsert has updated the row of its slot.
C1_Witness ==
    /\ resp[1].op = "upsert" /\ resp[1].status = 200 /\ resp[1].call = "update"
    /\ \E s \in savings : s.id = resp[1].id /\ s.weekNumber = NULL

C2_Step ==
    /\ \A a, b \in savings' : (a.weekNumber # NULL /\ SameSlot(a, b)) => a = b
    /\ \A p \in Procs :
        (/\ pc[p] = "upsert_write" /\ req[p].period = "weekly"
         /\ pc'[p] = "idle" /\ resp'[p].status = 200)
        => LET r == req[p]
               old == {s \in savings : /\ s.userId = r.user /\ s.month = r.month
                                       /\ s.year = r.year
                                       /\ s.weekNumber = r.weekNumber}
           IN /\ old # {} => (resp'[p].id \in Ids(old) /\ Ids(savings') = Ids(savings))
              /\ \E s \in savings' :
                    /\ s.id = resp'[p].id
                    /\ s.userId = r.user /\ s.month = r.month /\ s.year = r.year
                    /\ s.weekNumber = r.weekNumber
                    /\ CarriesValuesOf(s, r)
    /\ \A s \in savings' :
          s.weekNumber # NULL =>
             \E r \in ConcReqs : r.op = "upsert" /\ CarriesValuesOf(s, r)

\* C2: under any interleaving, at most one row per (userId, month, year,
\* weekNumber) with a concrete weekNumber; an accepted weekly upsert on a key
\* that has a row updates that row, and the row carries the values of one
\* single upsert.
C2_WeeklyUpsertUnique == [][C2_Step]_vars

\* Both callers' weekly upserts were accepted on the same row, one updating it.
C2_Witness ==
    /\ resp[1].op = "upsert" /\ resp[1].status = 200 /\ resp[1].call = "update"
    /\ resp[2].op = "upsert" /\ resp[2].status = 200 /\ resp[2].id = resp[1].id
    /\ \E s \in savings : s.id = resp[1].id /\ s.weekNumber # NULL

C3_Step ==
    \A p \in Procs :
        (/\ pc[p] = "upsert_write" /\ req[p].period # "weekly"
         /\ loc[p].id = NULL /\ pc'[p] = "idle")
        => /\ resp'[p].status = 200 /\ resp'[p].call = "create"
           /\ Cardinality(savings') = Cardinality(savings) + 1
           /\ \E s \in savings' \ savings :
                 /\ s.userId = req[p].user /\ s.month = req[p].month
                 /\ s.year = req[p].year /\ s.weekNumber = NULL

\* C3: a monthly upsert whose lookup saw no row always inserts, whatever the
\* other caller wrote in between (the unique index accepts a second row with
\* weekNumber = NULL), so two rows of one monthly slot are reachable.
C3_MonthlyInsertNeverRejected == [][C3_Step]_vars

\* Two rows with weekNumber = NULL for the same (userId, month, year).
C3_Witness ==
    \E a, b \in savings : a.id # b.id /\ a.weekNumber = NULL /\ SameSlot(a, b)

SavingAt(S, id) == {s \in S : s.id = id}
TxAt(T, sid) == {t \in T : t.savingId = sid}

C4_Step ==
    \A p \in Procs :
        (/\ pc[p] = "recv" /\ req[p].op = "deletePeriod" /\ pc'[p] # "recv"
         /\ \E s \in savings : s.id = req[p].id /\ s.userId = req[p].user
         /\ TxAt(transactions, req[p].id) # {})
        => /\ resp'[p].status = 400
           /\ resp'[p].n = Cardinality(TxAt(transactions, req[p].id))
           /\ savings' = savings /\ transactions' = transactions
           /\ pc'[p] = "idle"

\* C4: the safe delete, called by the owner on a period with N >= 1
\* transactions, answers 400 with transactionCount = N and changes nothing.
C4_SafeDeleteConflict == [][C4_Step]_vars

\* The safe delete was refused on a period with two transactions, which are
\* all still stored.
C4_Witness ==
    /\ resp[1].op = "deletePeriod" /\ resp[1].status = 400 /\ resp[1].n = 2
    /\ SavingAt(savings, resp[1].id) # {}
    /\ Cardinality(TxAt(transactions, resp[1].id)) = 2

C5_Step ==
    /\ \A p \in Procs :
         (/\ req[p].op = "forceDelete" /\ pc'[p] = "idle" /\ resp'[p].status = 200)
         => /\ SavingAt(savings, req[p].id) # {}
            /\ savings' = savings \ SavingAt(savings, req[p].id)
            /\ transactions' = transactions \ TxAt(transactions, req[p].id)
    /\ \A id \in 1..(nextTxId - 1) :
         (\A t \in transactions : t.id # id) => (\A t \in transactions' : t.id # id)
    /\ \A p \in Procs :
         (/\ pc[p] = "recv" /\ req[p].op \in {"updateTx", "deleteTx"}
          /\ pc'[p] # "recv"
          /\ \A t \in transactions : t.id # req[p].id)
         => /\ resp'[p].status = 404 /\ pc'[p] = "idle"
            /\ savings' = savings /\ transactions' = transactions

\* C5: a successful force delete removes the period row and exactly the
\* transactions attached to it; an id once removed is never stored again, and
\* updateTransaction / deleteTransaction on an id that is not stored answer 404
\* and change nothing.
C5_ForceDeleteRemovesAll == [][C5_Step]_vars

\* A force delete removed a period and its transactions while a transaction
\* of another period stayed.
C5_Witness ==
    /\ resp[1].op = "forceDelete" /\ resp[1].status = 200 /\ resp[1].n >= 1
    /\ SavingAt(savings, resp[1].id) = {}
    /\ TxAt(transactions, resp[1].id) = {}
    /\ transactions # {}

C6_Step ==
    /\ \A p \in Procs :
         (req[p].op = "forceDelete" /\ pc'[p] # pc[p])
         => \/ savings' = savings /\ transactions' = transactions
            \/ /\ SavingAt(savings', req[p].id) = {}
               /\ TxAt(transactions', req[p].id) = {}
               /\ savings' = savings \ SavingAt(savings, req[p].id)
               /\ transactions' = transactions \ TxAt(transactions, req[p].id)
    /\ \A t \in transactions' : SavingAt(savings', t.savingId) # {}

\* C6: every step of a force delete, its failure between the two deletes
\* included, either leaves the store as it is or removes the period together
\* with all its transactions; no stored transaction is ever without its period.
C6_ForceDeleteAllOrNothing == [][C6_Step]_vars

\* A force delete failed after its deleteMany: the period and its transaction
\* are still stored.
C6_Witness ==
    \E p \in Procs :
        /\ resp[p].op = "forceDelete" /\ resp[p].status = 500
        /\ SavingAt(savings, resp[p].id) # {}
        /\ TxAt(transactions, resp[p].id) # {}

RECURSIVE PrefixSum(_, _)
PrefixSum(body, k) == IF k = 0 THEN 0 ELSE body[k].amount + PrefixSum(body, k - 1)

\* C7: the list of a period comes oldest first, and the runningTotal of its
\* k-th entry is the sum of the amounts of its first k entries.
C7_RunningTotalChronological ==
    \A p \in Procs :
        (resp[p].op = "listTx" /\ resp[p].status = 200)
        => /\ \A k \in 1..(Len(resp[p].body) - 1) :
                 resp[p].body[k].date <= resp[p].body[k + 1].date
           /\ \A k \in 1..Len(resp[p].body) :
                 resp[p].body[k].runningTotal = PrefixSum(resp[p].body, k)

\* The list of a period comes oldest first.
C7_OldestFirst ==
    \A p \in Procs :
        (resp[p].op = "listTx" /\ resp[p].status = 200)
        => \A k \in 1..(Len(resp[p].body) - 1) :
              resp[p].body[k].date <= resp[p].body[k + 1].date

\* C8: every stored row has availableAmount = monthlyIncome - savingTarget and
\* dailyBudget * dayCount = availableAmount (7 days for a weekly row, the days
\* of its month for a monthly row), all four from one of the requests.
C8_DerivedFieldsConsistent ==
    \A s \in savings :
        /\ s.availableAmount = s.monthlyIncome - s.savingTarget
        /\ s.dailyBudget.num * (IF s.weekNumber = NULL
                                THEN DaysInMonth(s.year, s.month) ELSE 7)
             = s.availableAmount * s.dailyBudget.den
        /\ \E r \in ConcReqs :
              /\ r.op = "upsert"
              /\ s.monthlyIncome = r.income /\ s.savingTarget = r.target
              /\ s.availableAmount = r.income - r.target
              /\ s.dailyBudget.num * (IF r.period = "weekly" THEN 7
                                      ELSE DaysInMonth(r.year, r.month))
                   = (r.income - r.target) * s.dailyBudget.den

\* Two concurrent upserts were both accepted as updates of the same row.
C8_Witness ==
    /\ resp[1].op = "upsert" /\ resp[1].status = 200 /\ resp[1].call = "update"
    /\ resp[2].op = "upsert" /\ resp[2].status = 200 /\ resp[2].call = "update"
    /\ resp[1].id = resp[2].id
    /\ SavingAt(savings, resp[1].id) # {}

Present(x) == x # Undefined

\* The requests C9 says are rejected.
C9_Rejected(r) ==
    \/ Present(r.income) /\ Present(r.target) /\ r.target >= r.income
    \/ Present(r.income) /\ r.income <= 0
    \/ Present(r.target) /\ r.target < 0
    \/ ~Present(r.month) \/ ~Present(r.year)
    \/ Present(r.month) /\ r.month \notin 1..12
    \/ r.period = "weekly" /\ ~Present(r.weekNumber)

\* The requests C9 says are accepted.
C9_Accepted(r) ==
    /\ Present(r.income) /\ Present(r.target)
    /\ 0 < r.target /\ r.target < r.income
    /\ Present(r.month) /\ r.month \in 1..12
    /\ Present(r.year) /\ r.year > 0
    /\ r.period = "weekly" => (Present(r.weekNumber) /\ r.weekNumber > 0)

C9_Step ==
    /\ \A p \in Procs :
         (pc[p] = "recv" /\ req[p].op = "upsert" /\ pc'[p] # "recv")
         => /\ C9_Rejected(req[p]) =>
                 /\ pc'[p] = "idle" /\ resp'[p].status = 400
                 /\ savings' = savings /\ transactions' = transactions
            /\ C9_Accepted(req[p]) => pc'[p] = "upsert_write"
    /\ \A p \in Procs :
         (pc[p] = "upsert_write" /\ pc'[p] = "idle" /\ C9_Accepted(req[p]))
         => /\ resp'[p].status = 200
            /\ \E s \in savings' :
                  /\ s.id = resp'[p].id /\ s.userId = req[p].user
                  /\ s.month = req[p].month /\ s.year = req[p].year
                  /\ s.monthlyIncome = req[p].income
                  /\ s.savingTarget = req[p].target
    /\ \A s \in savings' : s.availableAmount > 0 /\ s.month \in 1..12

\* C9: upsertPeriod answers 400 and changes nothing for every request with
\* target >= income, income <= 0, target < 0, month or year absent, month
\* outside 1..12, or weekly without weekNumber; it writes the row for every
\* request with 0 < target < income and valid period fields; every stored row
\* has availableAmount > 0 and month in 1..12.
C9_UpsertValidation == [][C9_Step]_vars

\* A request with the target just under the income was accepted and stored.
C9_Witness ==
    /\ resp[1].op = "upsert" /\ resp[1].status = 200
    /\ \E s \in savings :
          /\ s.id = resp[1].id /\ s.savingTarget = s.monthlyIncome - 1
          /\ s.availableAmount = 1

\* C10: every stored transaction references a stored period of the same user.
C10_TransactionOwnedPeriod ==
    \A t \in transactions :
        \E s \in savings : s.id = t.savingId /\ s.userId = t.userId

\* A createTransaction passed its ownership check, the period was deleted by
\* the other caller, and the insert was refused.
C10_Witness ==
    \E p, q \in Procs :
        /\ resp[p].op = "createTx" /\ resp[p].status = 500
        /\ resp[q].op \in {"deletePeriod", "forceDelete"} /\ resp[q].status = 200
        /\ resp[q].id = resp[p].id

\* C11: every stored transaction has amount > 0.
C11_AmountPositive == \A t \in transactions : t.amount > 0

C13_Step ==
    /\ \A p \in Procs :
         (pc[p] = "update_tx" /\ pc'[p] = "idle" /\ resp'[p].status = 200)
         => \E t \in transactions, u \in transactions' :
               /\ t.id = req[p].id /\ u.id = req[p].id
               /\ t.userId = req[p].user
               /\ ~Present(req[p].amount) => u.amount = t.amount
               /\ ~Present(req[p].description) => u.description = t.description
               /\ ~Present(req[p].date) => u.date = t.date
               /\ u.amount # t.amount => u.amount = req[p].amount
               /\ u.description # t.description => u.description = req[p].description
               /\ u.date # t.date => u.date = req[p].date
               /\ u.userId = t.userId /\ u.savingId = t.savingId
               /\ transactions' \ {u} = transactions \ {t}
               /\ savings' = savings
    /\ \A t \in transactions, u \in transactions' :
         t.id = u.id => (u.userId = t.userId /\ u.savingId = t.savingId)

\* C13: a successful updateTransaction by the owner leaves every field the
\* patch lacks at its previous value and gives a changed field the value of
\* the patch; the row keeps its id, userId and savingId, every other
\* transaction and every period is unchanged, and no step of any operation
\* changes the userId or savingId of a stored transaction.
C13_PartialUpdate == [][C13_Step]_vars

\* Two partial patches were applied to one transaction: its amount and its
\* description come from the patches, its date from its creation, and the
\* other transaction still has the amount it was created with.
C13_Witness ==
    /\ resp[1].op = "updateTx" /\ resp[1].status = 200 /\ resp[1].call = "update"
    /\ \E t, o \in transactions :
          /\ t.id = resp[1].id /\ t.amount = 20 /\ t.description = 1 /\ t.date = 1
          /\ o.id # t.id /\ o.amount = 10 /\ o.description = 0

\* The insert of createTransaction: one new row of the caller on the period,
\* or a refusal by the foreign key when the period is gone.
C14_Insert ==
    \A p \in Procs :
        (pc[p] = "create_tx" /\ pc'[p] = "idle")
        => IF SavingAt(savings, req[p].id) # {}
           THEN /\ resp'[p].status = 201
                /\ \E t \in transactions' :
                      /\ t.id \notin {x.id : x \in transactions}
                      /\ t.userId = req[p].user /\ t.savingId = req[p].id
                      /\ t.amount = req[p].amount
                      /\ transactions' = transactions \cup {t}
                /\ savings' = savings
           ELSE /\ resp'[p].status = 500
                /\ savings' = savings /\ transactions' = transactions

C14_OriginalStep ==
    /\ \A p \in Procs :
         (pc[p] = "recv" /\ req[p].op = "createTx" /\ pc'[p] # "recv")
         => LET r == req[p]
                badAmount == ~Present(r.amount) \/ r.amount <= 0
                owned == FindSavingOwned(savings, r.id, r.user) # {}
            IN /\ savings' = savings /\ transactions' = transactions
               /\ badAmount => (pc'[p] = "idle" /\ resp'[p].status = 400)
               /\ (~badAmount /\ ~owned) => (pc'[p] = "idle" /\ resp'[p].status = 404)
               /\ (~badAmount /\ owned) => pc'[p] = "create_tx"
    /\ C14_Insert

\* C14 as stated: createTransaction answers 400 when the amount is missing or
\* <= 0, 404 when the amount is valid but the caller owns no period with the
\* given id, both without a change to the store, and otherwise adds exactly
\* one transaction of the caller on that period and answers 201.
C14_CreateOutcomes == [][C14_OriginalStep]_vars

C14_Step ==
    /\ \A p \in Procs :
         (pc[p] = "recv" /\ req[p].op = "createTx" /\ pc'[p] # "recv")
         => LET r == req[p]
                invalid == \/ ~Present(r.amount) \/ r.amount <= 0
                           \/ ~Present(r.id) \/ r.id = 0
                owned == FindSavingOwned(savings, r.id, r.user) # {}
            IN /\ savings' = savings /\ transactions' = transactions
               /\ invalid => (pc'[p] = "idle" /\ resp'[p].status = 400)
               /\ (~invalid /\ ~owned) => (pc'[p] = "idle" /\ resp'[p].status = 404)
               /\ (~invalid /\ owned) => pc'[p] = "create_tx"
    /\ C14_Insert

\* C14 amended: createTransaction answers 400 when the amount is missing or
\* <= 0 or the period id is missing or 0, 404 when both are given but the
\* caller owns no period with that id, both without a change to the store,
\* and otherwise adds exactly one transaction of the caller on that period
\* and answers 201 (500 and no change if the period is gone at the insert).
C14_CreateOutcomesWithPeriodId == [][C14_Step]_vars

\* A create was accepted on the caller's period while the other user's period
\* is stored, after which a create naming that other period was refused.
C14_Witness ==
    /\ resp[1].op = "createTx" /\ resp[1].status = 404
    /\ \E s \in savings : s.id = resp[1].id /\ s.userId = 2
    /\ \E t \in transactions : t.userId = 1 /\ t.amount = 10
    /\ \E s \in savings : s.userId = 1

\* The row the request addresses: its user, month, year and week (NULL for a
\* monthly request).
KeyMatches(s, r) ==
    /\ s.userId = r.user /\ s.month = r.month /\ s.year = r.year
    /\ s.weekNumber = (IF r.period = "weekly" THEN r.weekNumber ELSE NULL)

C15_Step ==
    \A p \in Procs :
        (req[p].op = "upsert" /\ pc'[p] # pc[p])
        => /\ transactions' = transactions
           /\ Cardinality(savings' \ savings) <= 1
           /\ \A s \in savings' \ savings : KeyMatches(s, req[p])
           /\ \A s \in savings : ~KeyMatches(s, req[p]) => s \in savings'
           /\ \A s \in savings :
                 \E u \in savings' :
                    /\ u.id = s.id /\ u.userId = s.userId
                    /\ u.month = s.month /\ u.year = s.year
                    /\ u.weekNumber = s.weekNumber
                    /\ TxAt(transactions', u.id) = TxAt(transactions, s.id)

\* C15: a step of upsertPeriod changes no transaction, writes at most one
\* period row, which has the key (userId, month, year, week or NULL) of the
\* request, leaves every row with another key as it is, and keeps the id,
\* userId, month, year and weekNumber of every stored row, so the
\* transactions of a row stay attached to it.
C15_UpsertFrame == [][C15_Step]_vars

\* A weekly upsert has updated the row of its week, which holds a
\* transaction, while the other stored row of the same month (the monthly
\* row or the row of the other week) holds the values of another request.
C15_Witness ==
    \E p \in Procs :
        /\ resp[p].op = "upsert" /\ resp[p].status = 200 /\ resp[p].call = "update"
        /\ \E s, o \in savings :
              /\ s.id = resp[p].id /\ s.weekNumber # NULL /\ s.monthlyIncome = 90
              /\ TxAt(transactions, s.id) # {}
              /\ o.id # s.id /\ o.userId = s.userId /\ o.month = s.month
              /\ o.year = s.year /\ o.monthlyIncome = 60

\* Row s is the row a call with request r leaves in its slot.
AfterCall(s, r) ==
    /\ KeyMatches(s, r) /\ CarriesValuesOf(s, r) /\ s.period = r.period

C16_Step ==
    \A p \in Procs :
        (pc[p] = "upsert_write" /\ pc'[p] = "idle")
        => /\ resp'[p].status = 200
           /\ \E s \in savings' : s.id = resp'[p].id /\ AfterCall(s, req[p])
           /\ \A s \in savings :
                 AfterCall(s, req[p])
                 => /\ savings' = savings /\ transactions' = transactions
                    /\ resp'[p].id = s.id /\ resp'[p].call = "update"

\* C16: with one request at a time, an accepted upsert leaves in its slot the
\* row that carries the request's income, target, available amount and daily
\* allowance, and an upsert that finds that row already stored (the same
\* request was served before) leaves the store exactly as it is and reports
\* the same row id, on the monthly and on the weekly path.
C16_UpsertIdempotent == [][C16_Step]_vars

\* A weekly upsert is about to write over the row that an identical request
\* left in its slot.
C16_Witness ==
    /\ pc[1] = "upsert_write" /\ req[1].period = "weekly"
    /\ \E s \in savings :
          /\ s.id = loc[1].id /\ AfterCall(s, req[1]) /\ s.savingTarget = 59

\* expectedSpent - runningTotal of a list entry, over the denominator of its
\* expectedSpent.
C20_DiffNum(e) == e.expectedSpent.num - e.runningTotal * e.expectedSpent.den

C20_Step ==
    \A p \in Procs :
        (pc[p] = "list_tx" /\ pc'[p] = "idle" /\ resp'[p].status = 200)
        => \A k \in 1..Len(resp'[p].body) :
              LET e == resp'[p].body[k]
                  d == C20_DiffNum(e)
                  mag == IF d < 0 THEN -d ELSE d
              IN /\ \E s \in savings :
                       /\ s.id = req[p].id
                       /\ e.expectedSpent.num * s.dailyBudget.den
                            = s.dailyBudget.num * e.date * e.expectedSpent.den
                 /\ e.difference.plus <=> d >= 0
                 /\ e.difference.minus <=> d < 0
                 /\ 2 * (e.difference.cents * e.expectedSpent.den - 100 * mag)
                      <= e.expectedSpent.den
                 /\ 2 * (100 * mag - e.difference.cents * e.expectedSpent.den)
                      < e.expectedSpent.den

RECURSIVE SumById(_, _)
SumById(T, k) ==
    IF k = 0 THEN 0
    ELSE SumById(T, k - 1)
         + (IF \E t \in T : t.id = k THEN (CHOOSE t \in T : t.id = k).amount ELSE 0)

C17_Step ==
    \A p \in Procs :
        (pc[p] = "recv" /\ req[p].op = "listPeriods" /\ pc'[p] # "recv")
        => LET b == resp'[p].body
           IN /\ pc'[p] = "idle" /\ resp'[p].status = 200
              /\ savings' = savings /\ transactions' = transactions
              /\ {b[i].saving : i \in 1..Len(b)}
                   = {s \in savings : s.userId = req[p].user}
              /\ Len(b) = Cardinality({s \in savings : s.userId = req[p].user})
              /\ \A i, j \in 1..Len(b) :
                    i < j => \/ b[i].saving.year > b[j].saving.year
                             \/ /\ b[i].saving.year = b[j].saving.year
                                /\ b[i].saving.month >= b[j].saving.month
              /\ \A i \in 1..Len(b) :
                    LET attached == TxAt(transactions, b[i].saving.id)
                    IN /\ b[i].totalSpent = SumById(attached, nextTxId - 1)
                       /\ b[i].transactionCount = Cardinality(attached)
                       /\ b[i].remainingBudget
                            = b[i].saving.availableAmount - b[i].totalSpent

\* C17: listPeriods returns each of the caller's periods once and no other
\* row, ordered by year descending, then month descending; for each of them
\* totalSpent is the sum of the amounts of the transactions attached to it,
\* transactionCount their number, and remainingBudget = availableAmount -
\* totalSpent.
C17_ListPeriods == [][C17_Step]_vars

\* The list holds two periods of one year, the later month first; one of them
\* has two transactions of 10 and 20.
C17_Witness ==
    /\ resp[1].op = "listPeriods" /\ resp[1].status = 200
    /\ Len(resp[1].body) = 2
    /\ resp[1].body[1].saving.year = resp[1].body[2].saving.year
    /\ resp[1].body[1].saving.month > resp[1].body[2].saving.month
    /\ resp[1].body[2].transactionCount = 2
    /\ resp[1].body[2].totalSpent = 30
    /\ resp[1].body[1].transactionCount = 0

C19_Step ==
    \A p \in Procs :
        (pc[p] = "recv" /\ req[p].op = "getPeriod" /\ pc'[p] # "recv")
        => LET r == req[p]
               monthly == {s \in savings : /\ s.userId = r.user /\ s.year = r.year
                                           /\ s.month = r.month
                                           /\ s.weekNumber = NULL}
           IN /\ pc'[p] = "idle"
              /\ savings' = savings /\ transactions' = transactions
              /\ IF monthly = {}
                 THEN resp'[p].status = 404 /\ resp'[p].body = <<>>
                 ELSE /\ resp'[p].status = 200
                      /\ Len(resp'[p].body) = 1
                      /\ LET b == resp'[p].body[1]
                             attached == TxAt(transactions, b.saving.id)
                         IN /\ b.saving \in monthly
                            /\ {b.transactions[i] : i \in 1..Len(b.transactions)}
                                 = attached
                            /\ Len(b.transactions) = Cardinality(attached)
                            /\ \A i \in 1..(Len(b.transactions) - 1) :
                                  b.transactions[i].date >= b.transactions[i + 1].date
                            /\ b.totalSpent = SumById(attached, nextTxId - 1)

\* C19: getPeriod answers with the caller's row of that year and month whose
\* weekNumber is NULL, with exactly the transactions attached to it, newest
\* first, and totalSpent equal to the sum of their amounts; it answers 404
\* when the caller has no such row, whatever weekly rows the caller holds
\* for that month and year.
C19_GetPeriod == [][C19_Step]_vars

\* getPeriod answered 404 to user 1, whose only period in that month and year
\* is a weekly one holding a transaction, while user 2 has the monthly row.
C19_Witness ==
    /\ resp[1].op = "getPeriod" /\ resp[1].status = 404
    /\ Cardinality(savings) = 2
    /\ \E s, o \in savings :
          /\ s.userId = 1 /\ s.weekNumber # NULL /\ s.month = 2 /\ s.year = 2024
          /\ TxAt(transactions, s.id) # {}
          /\ o.userId = 2 /\ o.weekNumber = NULL /\ o.month = 2 /\ o.year = 2024

\* The entries offset+1 .. offset+limit of sequence o that exist.
C18_Slice(o, offset, limit) ==
    LET last == IF offset + limit < Len(o) THEN offset + limit ELSE Len(o)
    IN [i \in 1..(IF last > offset THEN last - offset ELSE 0) |-> o[offset + i]]

C18_Step ==
    \A p \in Procs :
        (pc[p] = "count_tx" /\ pc'[p] # "count_tx")
        => LET r == req[p]
               limit == IF Present(r.limit) THEN r.limit ELSE 50
               offset == IF Present(r.offset) THEN r.offset ELSE 0
               own == {t \in transactions : t.userId = r.user}
               pg == resp'[p].pagination
           IN /\ pc'[p] = "idle" /\ resp'[p].status = 200
              /\ savings' = savings /\ transactions' = transactions
              /\ \E o \in [1..Cardinality(own) -> own] :
                    /\ \A i, j \in 1..Cardinality(own) : i # j => o[i] # o[j]
                    /\ \A i, j \in 1..Cardinality(own) :
                          i < j => o[i].date >= o[j].date
                    /\ resp'[p].body = C18_Slice(o, offset, limit)
              /\ pg.total = Cardinality(own)
              /\ pg.limit = limit /\ pg.offset = offset
              /\ pg.hasMore <=> (offset + limit < pg.total)
              /\ pg.hasMore <=> (\E k \in 1..pg.total : k > offset + limit)

\* C18: with one request at a time and limit, offset >= 0 (50 and 0 when
\* absent), listTransactions returns the entries offset+1 .. offset+limit of
\* the caller's transactions of all periods in a newest-first order, total is
\* the number of the caller's transactions, and hasMore = (offset + limit <
\* total), which is true exactly when a transaction of the caller lies beyond
\* the page.
C18_ListTransactionsPage == [][C18_Step]_vars

\* The first page of one entry out of the caller's two transactions: the
\* newer one, with hasMore true.
C18_Witness ==
    /\ resp[1].op = "listTransactions" /\ resp[1].status = 200
    /\ resp[1].pagination = [total |-> 2, limit |-> 1, offset |-> 0, hasMore |-> TRUE]
    /\ Len(resp[1].body) = 1
    /\ \E t \in transactions :
          /\ t.userId = resp[1].body[1].userId
          /\ t.date < resp[1].body[1].date

\* The rows of S that do not belong to the user.
C12_RowsOfOthers(S, user) == {x \in S : x.userId # user}

C12_Step ==
    \A p \in Procs :
        LET r == req[p]
            b == resp'[p].body
        IN /\ (r.op # "none" /\ pc'[p] # pc[p])
              => /\ C12_RowsOfOthers(savings', r.user) = C12_RowsOfOthers(savings, r.user)
                 /\ C12_RowsOfOthers(transactions', r.user)
                      = C12_RowsOfOthers(transactions, r.user)
           /\ (/\ pc[p] = "recv" /\ pc'[p] # "recv"
               /\ \/ /\ r.op \in {"createTx", "listTx", "deletePeriod", "forceDelete"}
                     /\ \E s \in savings : s.id = r.id /\ s.userId # r.user
                  \/ /\ r.op \in {"updateTx", "deleteTx"}
                     /\ \E t \in transactions : t.id = r.id /\ t.userId # r.user)
              => /\ pc'[p] = "idle" /\ resp'[p].status = 404
                 /\ savings' = savings /\ transactions' = transactions
           /\ (r.op = "listPeriods" /\ pc'[p] = "idle")
              => \A i \in 1..Len(b) :
                    /\ b[i].saving.userId = r.user
                    /\ \A t \in b[i].transactions : t.userId = r.user
           /\ (r.op = "getPeriod" /\ pc'[p] = "idle")
              => \A i \in 1..Len(b) :
                    /\ b[i].saving.userId = r.user
                    /\ \A k \in 1..Len(b[i].transactions) :
                          b[i].transactions[k].userId = r.user
           /\ (r.op = "listTransactions" /\ pc'[p] = "idle")
              => \A i \in 1..Len(b) : b[i].userId = r.user

C21_Step ==
    \A p \in Procs :
        (req[p].op = "deletePeriod" /\ pc'[p] # pc[p])
        => /\ transactions' = transactions
           /\ \A s \in savings \ savings' : TxAt(transactions, s.id) = {}

\* C21: under any interleaving, no step of the safe deletePeriod removes a
\* transaction, and the period it removes has no transaction attached at the
\* moment of the delete.
C21_SafeDeleteNeverCascades == [][C21_Step]_vars

C22_Step ==
    \A p \in Procs :
        (/\ req[p].op = "forceDelete" /\ pc'[p] = "idle"
         /\ resp'[p].status = 200)
        => resp'[p].n = Cardinality(transactions \ transactions')

\* C22: under any interleaving, the deletedTransactions count of a successful
\* forceDeletePeriod is the number of transactions its commit removed from
\* the store.
C22_DeletedCountExact == [][C22_Step]_vars

\* The cases in which C23 lets upsertPeriod answer 400.
C23_Listed(r) ==
    \/ ~Present(r.income) \/ ~Present(r.target)
    \/ r.income <= 0 \/ r.target < 0 \/ r.target >= r.income
    \/ ~Present(r.month) \/ ~Present(r.year) \/ r.month \notin 1..12
    \/ r.period = "weekly" /\ ~Present(r.weekNumber)

C23_Step ==
    /\ \A p \in Procs :
         (pc[p] = "recv" /\ req[p].op = "upsert" /\ pc'[p] # "recv")
         => /\ resp'[p].status = 400 => C23_Listed(req[p])
            /\ ~C23_Listed(req[p]) => pc'[p] = "upsert_write"
    /\ \A p \in Procs :
         (/\ pc[p] = "upsert_write" /\ pc'[p] = "idle"
          /\ resp'[p].status = 200 /\ req[p].target = 0)
         => \E s \in savings' :
               s.id = resp'[p].id /\ s.availableAmount = req[p].income

\* C23: upsertPeriod answers 400 only when income or target is missing,
\* income <= 0, target < 0, target >= income, month or year is missing, month
\* is outside 1..12, or a weekly request has no weekNumber; a request with
\* target 0, income > 0 and valid period fields is accepted and stores a row
\* with availableAmount = income.
C23_ValidationOnlyListed == [][C23_Step]_vars

C24_Step ==
    /\ \A p \in Procs :
         (pc[p] = "delete_tx" /\ pc'[p] = "idle")
         => /\ resp'[p].status = 200
            /\ \E t \in transactions :
                  /\ t.id = req[p].id /\ t.userId = req[p].user
                  /\ transactions' = transactions \ {t}
            /\ savings' = savings
    /\ \A p \in Procs :
         (/\ pc[p] = "recv" /\ req[p].op = "deletePeriod" /\ pc'[p] # "recv"
          /\ \E s \in savings : s.id = req[p].id /\ s.userId = req[p].user)
         => /\ savings' = savings /\ transactions' = transactions
            /\ IF TxAt(transactions, req[p].id) # {}
               THEN pc'[p] = "idle" /\ resp'[p].status = 400
               ELSE pc'[p] = "delete_saving"
    /\ \A p \in Procs :
         (pc[p] = "delete_saving" /\ pc'[p] = "idle")
         => /\ resp'[p].status = 200
            /\ SavingAt(savings, req[p].id) # {}
            /\ savings' = savings \ SavingAt(savings, req[p].id)
            /\ transactions' = transactions

\* C24: with one request at a time, deleteTransaction by the owner removes
\* exactly the target transaction and changes no other transaction and no
\* period; a safe deletePeriod by the owner answers 400 and changes nothing
\* as long as a transaction is attached to the period, and once none is left
\* it removes the period row and answers 200.
C24_DeleteAfterLastTransaction == [][C24_Step]_vars

\* User 1's period held every transaction that was created; each of them
\* was deleted, and the safe delete then removed the period, leaving the
\* period of user 2.
C24_Witness ==
    /\ resp[1].op = "deletePeriod" /\ resp[1].status = 200
    /\ resp[1].call = "delete"
    /\ nextTxId > MaxTxId /\ transactions = {}
    /\ SavingAt(savings, resp[1].id) = {}
    /\ savings # {} /\ \A s \in savings : s.userId = 2

C25_Step ==
    \A p \in Procs :
        (pc[p] = "toggle_update" /\ pc'[p] = "idle" /\ resp'[p].status = 200)
        => \E t \in todos, u \in todos' :
              /\ t.id = req[p].id /\ u.id = t.id
              /\ u.completed = ~t.completed
              /\ todos' \ {u} = todos \ {t}

\* C25: under any interleaving, every successfully completed toggle of a todo
\* flips its completed flag and changes no other todo, so that after n
\* completed toggles the flag is its initial value for even n and the
\* negation for odd n.
C25_ToggleFlips == [][C25_Step]_vars

====
